---- MODULE Spec2Model ----
(***************************************************************************)
(* Verification model of the us-census-bureau ingestion pipeline:          *)
(*   - the time-series fetchers (assets/acs, assets/population,            *)
(*     assets/poverty) and their last_year_processed watermark,            *)
(*   - catalog discovery (assets/catalog),                                 *)
(*   - variable discovery (assets/variables),                              *)
(*   - the generic data fetcher (assets/data_fetcher).                     *)
(* Strings whose characters matter (paths, variable names, cells) are      *)
(* tuples of one-character strings.                                        *)
(***************************************************************************)
EXTENDS Integers, Sequences, FiniteSets, TLC

VARIABLES
    \* ---- time-series fetchers ----
    store,          \* checkpoint store: domain -> persisted mapping
    now,            \* the calendar year (datetime.now().year)
    runs,           \* number of runs started so far
    dom,            \* the domain whose fetcher is exercised
    pc,             \* "idle" | "primary" | "alternate" | "tables" | "done"
    last_year,      \* local last_year of the running process_*
    current_year,   \* local current_year of the running process_*
    year,           \* loop variable of the year loop
    tbl,            \* position in ACS_TABLES of the inner loop (acs only)
    all_records,    \* local all_records of the running process_*
    requested,      \* history: years for which get() was called in this run
    skipped,        \* history: years left behind by a later save_state, over all runs
    yearReqs,       \* history: the get() calls of the fetch function for the last year
    saved,          \* history: years passed to save_state in this run
    errYears,       \* history: years in which a fetch or its parsing raised
    notAvail,       \* history: years given up on a "404" error
    \* ---- catalog discovery ----
    catalog,        \* the "dataset" list of the remote catalog document
    catPc,          \* "idle" | "start" | "done" | "raised" | "fetch_failed"
    catTable,       \* the descriptors process_catalog returns, in order
    catState,       \* what save_state("catalog", ...) persisted
    \* ---- variable discovery ----
    datasets,       \* process_variables: catalog_data.to_pylist()
    remoteDict,     \* the names of the variable dictionary the API serves
    varPc,          \* "idle" | "start" | "loop" | "done"
    vi,             \* position of the dataset loop
    all_variables,  \* process_variables.all_variables
    dataset_vars,   \* what the last fetch_dataset_variables call returned
    dataset_variable_counts,  \* process_variables.dataset_variable_counts
    varFetched,     \* history: per dataset, "none" | "ok" | "failed" | "nolink"
    varRequests,    \* history: the datasets whose variables_link was requested
    varState,       \* what save_state("variables", ...) persisted
    \* ---- data fetcher: dataset selection ----
    catalog_data,   \* process_data_fetcher: catalog_data.to_pylist()
    selPc,          \* "idle" | "start" | "done"
    sorted_datasets,    \* `datasets` after datasets.sort(...)
    datasets_to_process,
    \* ---- data fetcher: variable batches ----
    variables,      \* build_variable_groups: its argument
    grpPc,          \* "idle" | "start" | "loop" | "done"
    gi,             \* position of the loop over variables
    groupAcc,       \* build_variable_groups: groups and current_group
    variable_groups, \* what build_variable_groups returned
    \* ---- data fetcher: response parsing ----
    data,           \* parse_api_response: the decoded response
    variable_map,   \* parse_api_response: the dataset's variables, in order
    parsePc,        \* "idle" | "start" | "done"
    parsed,         \* what parse_api_response returned, or that it raised
    \* ---- data fetcher: the dataset loop ----
    dfDatasets,     \* datasets_to_process, each with its dataset_variables
    dfPc,           \* "idle" | "start" | "fetch" | "done" | "raised"
    di,             \* position of the dataset loop of process_data_fetcher
    geoIdx,         \* position of the loop over GEOGRAPHY_LEVELS
    groupIdx,       \* position of the loop over variable_groups
    dsGroups,       \* process_dataset_data.variable_groups
    dsRecords,      \* process_dataset_data.all_records
    total_records,  \* len(all_records) of process_data_fetcher
    uploads,        \* history: the upload_data calls, in order
    dfRequests,     \* history: the get() calls of fetch_census_data, in order,
                    \* each with whether fetch_census_data returned data
    dfState         \* what save_state("data_fetcher", ...) persisted

tsVars == <<store, now, runs, dom, pc, last_year, current_year, year, tbl,
            all_records, requested, yearReqs, saved, errYears, notAvail, skipped>>

catVars == <<catalog, catPc, catTable, catState>>

varVars == <<datasets, remoteDict, varPc, vi, all_variables, dataset_vars,
             dataset_variable_counts, varFetched, varRequests, varState>>

selVars == <<catalog_data, selPc, sorted_datasets, datasets_to_process>>

grpVars == <<variables, grpPc, gi, groupAcc, variable_groups>>

parseVars == <<data, variable_map, parsePc, parsed>>

fetchVars == <<dfDatasets, dfPc, di, geoIdx, groupIdx, dsGroups, dsRecords,
               total_records, uploads, dfRequests, dfState>>

vars == <<tsVars, catVars, varVars, selVars, grpVars, parseVars, fetchVars>>

\* What the actions of one component leave alone.
nonTS == <<catVars, varVars, selVars, grpVars, parseVars, fetchVars>>
nonCat == <<tsVars, varVars, selVars, grpVars, parseVars, fetchVars>>
nonVar == <<tsVars, catVars, selVars, grpVars, parseVars, fetchVars>>
nonSel == <<tsVars, catVars, varVars, grpVars, parseVars, fetchVars>>
nonGrp == <<tsVars, catVars, varVars, selVars, parseVars, fetchVars>>
nonParse == <<tsVars, catVars, varVars, selVars, grpVars, fetchVars>>
nonFetch == <<tsVars, catVars, varVars, selVars, grpVars, parseVars>>

(***************************************************************************)
(* Bounds of the model.                                                    *)
(***************************************************************************)
MaxLag == 4            \* the calendar year ranges over 2019 .. 2018 + MaxLag
MaxRuns == 2           \* runs of one domain's fetcher per behaviour
MaxCatalog == 2        \* entries of the remote catalog document
MaxDatasets == 2       \* rows of the catalog table given to process_variables
MaxDictVars == 2       \* names in the variable dictionary the API serves
MaxPerType == 2        \* catalog rows of one dataset type
MaxVariables == 120    \* variables of one dataset
MaxRows == 2           \* data rows of one response
MaxFetchDatasets == 2   \* datasets process_data_fetcher walks through

(***************************************************************************)
(* Time-series fetchers: acs.py, population.py, poverty.py                 *)
(***************************************************************************)
Domains == {"acs", "population", "poverty"}

DefaultLastYear == 2018

ACS_TABLES == <<"B01003", "B25001", "B19013", "B15003", "B08303">>

\* load_state(domain) of a domain never saved: the empty mapping.
EmptyState == [present |-> FALSE, last_year_processed |-> 0]

\* save_state(domain, {"last_year_processed": y}) stores this mapping.
YearState(y) == [present |-> TRUE, last_year_processed |-> y]

\* state.get("last_year_processed", 2018)
StateGet(s) == IF s.present THEN s.last_year_processed ELSE DefaultLastYear

\* range(last_year + 1, ...): the first year of the loop.
FirstYear_NoIncrement(last) == last
FirstYear(last) == last + 1

\* The exclusive end of the year range: current_year - 1 for acs
\* (range(last_year + 1, current_year - 1)), current_year for the others.
EndYear(d, cur) == IF d = "acs" THEN cur - 1 ELSE cur

\* Outcomes of one fetch_acs_data call and the parsing of its rows:
\* recs: at least one record was appended to all_records;
\* exc:  "none", or the kind of the exception caught by the except clause
\*       ("404": its text contains "404").
AcsOutcomes ==
    { [recs |-> FALSE, exc |-> "none"],  [recs |-> TRUE, exc |-> "none"],
      [recs |-> FALSE, exc |-> "other"], [recs |-> TRUE, exc |-> "other"],
      [recs |-> FALSE, exc |-> "404"] }

\* Outcomes of one get() + response.json() inside fetch_population_estimates
\* or fetch_saipe_data.  fail: the call raised (kind as above).  Otherwise
\* data is the shape of the decoded body:
\*   "short"   falsy or at most one row        (nothing done for the year)
\*   "norows"  more than one row, none well-formed (no record, no exception)
\*   "rows"    well-formed rows, all converted
\*   "raise0"  float() raised on the first well-formed row
\*   "raise1"  float() raised after a record was appended
GetOutcomes ==
    { [fail |-> "404", data |-> "short"], [fail |-> "other", data |-> "short"] }
    \cup { [fail |-> "none", data |-> s] :
             s \in {"short", "norows", "rows", "raise0", "raise1"} }

\* What the history keeps of one get() + response.json() for year y:
\* "raised", or whether the decoded body passes `data and len(data) > 1`.
GetCall(y, endpoint, o) ==
    [year |-> y, endpoint |-> endpoint,
     result |-> IF o.fail # "none" THEN "raised"
                ELSE IF o.data = "short" THEN "short" ELSE "usable"]

TSStart(nows, doms) ==
    /\ store = [d \in Domains |-> EmptyState]
    /\ now \in nows
    /\ runs = 0
    /\ dom \in doms
    /\ pc = "idle"
    /\ last_year = DefaultLastYear
    /\ current_year = now
    /\ year = DefaultLastYear
    /\ tbl = 1
    /\ all_records = <<>>
    /\ requested = {}
    /\ yearReqs = <<>>
    /\ skipped = {}
    /\ saved = <<>>
    /\ errYears = {}
    /\ notAvail = {}

TSInit == TSStart((DefaultLastYear + 1) .. (DefaultLastYear + MaxLag), Domains)

\* The time-series fetchers not running.
TSIdle == TSStart({DefaultLastYear + 1}, {"acs"})

\* A year passes between two runs.
NewYear ==
    /\ pc \in {"idle", "done"}
    /\ now < DefaultLastYear + MaxLag
    /\ now' = now + 1
    /\ UNCHANGED <<store, runs, dom, pc, last_year, current_year, year, tbl,
                   all_records, requested, yearReqs, saved, errYears, notAvail,
                   skipped>>
    /\ UNCHANGED nonTS

\* The position of the year loop once `y` is the next value of the range.
LoopPc(d, y, cur) ==
    IF y >= EndYear(d, cur) THEN "done"
    ELSE IF d = "acs" THEN "tables" ELSE "primary"

\* process_acs / process_population / process_poverty up to the first
\* iteration of the year loop.
StartRun ==
    /\ pc \in {"idle", "done"}
    /\ runs < MaxRuns
    /\ runs' = runs + 1
    /\ last_year' = StateGet(store[dom])
    /\ current_year' = now
    /\ all_records' = <<>>
    /\ year' = FirstYear(last_year')
    /\ tbl' = 1
    /\ pc' = LoopPc(dom, year', current_year')
    /\ requested' = {}
    /\ yearReqs' = <<>>
    /\ saved' = <<>>
    /\ errYears' = {}
    /\ notAvail' = {}
    /\ UNCHANGED <<store, now, dom, skipped>>
    /\ UNCHANGED nonTS

\* One iteration of the table loop of process_acs: fetch_acs_data, the
\* parsing of its rows and the except clause; on the last table of the year,
\* or on the break, also the `if all_records: save_state(...)` that ends the
\* iteration of the year loop.
AcsTable ==
    /\ pc = "tables"
    /\ dom = "acs"
    /\ \E o \in AcsOutcomes :
         LET recs == IF o.recs
                     THEN Append(all_records,
                                 [year |-> year, table_id |-> ACS_TABLES[tbl]])
                     ELSE all_records
             endOfYear == o.exc = "404" \/ tbl = Len(ACS_TABLES)
         IN  /\ all_records' = recs
             /\ requested' = requested \cup {year}
             /\ UNCHANGED <<yearReqs, skipped>>
             /\ errYears' = IF o.exc # "none" THEN errYears \cup {year}
                            ELSE errYears
             /\ notAvail' = IF o.exc = "404" THEN notAvail \cup {year}
                            ELSE notAvail
             /\ IF endOfYear
                THEN /\ IF recs # <<>>
                        THEN /\ store' = [store EXCEPT !["acs"] = YearState(year)]
                             /\ saved' = Append(saved, year)
                        ELSE UNCHANGED <<store, saved>>
                     /\ year' = year + 1
                     /\ tbl' = 1
                     /\ pc' = LoopPc(dom, year + 1, current_year)
                ELSE /\ tbl' = tbl + 1
                     /\ UNCHANGED <<store, saved, year, pc>>
    /\ UNCHANGED <<now, runs, dom, last_year, current_year>>
    /\ UNCHANGED nonTS

\* What the year loop does after a year that was not saved: nothing is
\* tested and the except clause says `continue`; and a loop that stops there.
AfterFailedYear_Break == "break"
AfterFailedYear == "continue"

\* The body of the year loop of process_population / process_poverty once
\* the fetch function returned a decoded body of shape `shape`
\* ("none": it returned None).
YearBody(shape) ==
    LET usable == shape \in {"norows", "rows", "raise0", "raise1"}
        appended == shape \in {"rows", "raise1"}
        raised == shape \in {"raise0", "raise1"}
    IN  /\ all_records' = IF appended
                          THEN Append(all_records, [year |-> year])
                          ELSE all_records
        /\ errYears' = IF raised \/ shape = "none" THEN errYears \cup {year}
                       ELSE errYears
        /\ IF usable /\ ~raised
           THEN /\ store' = [store EXCEPT ![dom] = YearState(year)]
                /\ saved' = Append(saved, year)
                /\ skipped' = skipped \cup
                     { y \in FirstYear(last_year) .. (year - 1) :
                         \A i \in DOMAIN saved : saved[i] # y }
           ELSE UNCHANGED <<store, saved, skipped>>
        /\ year' = year + 1
        /\ pc' = IF ~(usable /\ ~raised) /\ AfterFailedYear = "break"
                 THEN "done"
                 ELSE LoopPc(dom, year + 1, current_year)

\* fetch_population_estimates / fetch_saipe_data: the request to the
\* primary endpoint; when it succeeds, the rest of the year's iteration.
PrimaryGet ==
    /\ pc = "primary"
    /\ dom \in {"population", "poverty"}
    /\ \E o \in GetOutcomes :
         /\ requested' = requested \cup {year}
         /\ yearReqs' = <<GetCall(year, "primary", o)>>
         /\ IF o.fail = "none"
            THEN /\ YearBody(o.data)
                 /\ UNCHANGED notAvail
            ELSE /\ pc' = "alternate"
                 /\ UNCHANGED <<store, saved, year, all_records, errYears,
                                notAvail, skipped>>
    /\ UNCHANGED <<now, runs, dom, last_year, current_year, tbl>>
    /\ UNCHANGED nonTS

\* The except branch: the request to the alternate endpoint, then the rest
\* of the year's iteration (with None when it raised too).
AlternateGet ==
    /\ pc = "alternate"
    /\ dom \in {"population", "poverty"}
    /\ \E o \in GetOutcomes :
         /\ requested' = requested \cup {year}
         /\ yearReqs' = Append(yearReqs, GetCall(year, "alternate", o))
         /\ YearBody(IF o.fail = "none" THEN o.data ELSE "none")
         /\ notAvail' = IF o.fail = "404" THEN notAvail \cup {year}
                        ELSE notAvail
    /\ UNCHANGED <<now, runs, dom, last_year, current_year, tbl>>
    /\ UNCHANGED nonTS

TSNext == NewYear \/ StartRun \/ AcsTable \/ PrimaryGet \/ AlternateGet

(***************************************************************************)
(* Strings: tuples of one-character strings.                               *)
(***************************************************************************)
UpperCase == <<"A", "B", "C", "D", "E", "F", "G", "H", "I", "J", "K", "L", "M", "N", "O", "P", "Q", "R", "S", "T", "U", "V", "W", "X", "Y", "Z">>
LowerCase == <<"a", "b", "c", "d", "e", "f", "g", "h", "i", "j", "k", "l", "m", "n", "o", "p", "q", "r", "s", "t", "u", "v", "w", "x", "y", "z">>

\* str.lower(), character by character.
LowerOf ==
    [ c \in { UpperCase[i] : i \in DOMAIN UpperCase } |->
        LowerCase[CHOOSE i \in DOMAIN UpperCase : UpperCase[i] = c] ]

LowerChar(c) == IF c \in DOMAIN LowerOf THEN LowerOf[c] ELSE c

Lower(s) == [i \in DOMAIN s |-> LowerChar(s[i])]

\* `sub in s` of two strings.
Contains(sub, s) ==
    \/ sub = <<>>
    \/ \E i \in 0 .. (Len(s) - Len(sub)) :
         s[i + 1] = sub[1] /\ SubSeq(s, i + 1, i + Len(sub)) = sub

\* s.startswith(prefix)
StartsWith(s, prefix) ==
    Len(prefix) <= Len(s) /\ SubSeq(s, 1, Len(prefix)) = prefix

\* '/'.join(parts)
RECURSIVE Join(_)
Join(parts) ==
    IF parts = <<>> THEN <<>>
    ELSE IF Len(parts) = 1 THEN parts[1]
    ELSE parts[1] \o <<"/">> \o Join(Tail(parts))

Digits == <<"0", "1", "2", "3", "4", "5", "6", "7", "8", "9">>

IsDigit(c) == \E i \in DOMAIN Digits : Digits[i] = c

DigitVal(c) == (CHOOSE i \in DOMAIN Digits : Digits[i] = c) - 1

\* The value of a non-empty string of decimal digits.
RECURSIVE DigitsVal(_)
DigitsVal(s) ==
    IF s = <<>> THEN 0
    ELSE 10 * DigitsVal(SubSeq(s, 1, Len(s) - 1)) + DigitVal(s[Len(s)])

(***************************************************************************)
(* Catalog discovery: catalog.py                                           *)
(***************************************************************************)
\* PRIORITY_DATASETS, in the order of the dict.
PRIORITY_DATASETS ==
    << [pattern |-> <<"a", "c", "s">>,
        min_year |-> 2010, priority |-> 1],
       [pattern |-> <<"c", "b", "p">>,
        min_year |-> 2010, priority |-> 1],
       [pattern |-> <<"p", "e", "p">>,
        min_year |-> 2010, priority |-> 1],
       [pattern |-> <<"z", "b", "p">>,
        min_year |-> 2010, priority |-> 2],
       [pattern |-> <<"a", "s", "e">>,
        min_year |-> 2014, priority |-> 2],
       [pattern |-> <<"a", "b", "s", "c", "s">>,
        min_year |-> 2017, priority |-> 2],
       [pattern |-> <<"b", "d", "s", "t", "i", "m", "e", "s", "e", "r", "i", "e", "s">>,
        min_year |-> 2010, priority |-> 2],
       [pattern |-> <<"i", "n", "t", "l", "t", "r", "a", "d", "e">>,
        min_year |-> 2013, priority |-> 1],
       [pattern |-> <<"s", "a", "h", "i", "e">>,
        min_year |-> 2010, priority |-> 2],
       [pattern |-> <<"s", "a", "i", "p", "e">>,
        min_year |-> 2010, priority |-> 1],
       [pattern |-> <<"e", "c", "n", "b", "a", "s", "i", "c">>,
        min_year |-> 2017, priority |-> 1],
       [pattern |-> <<"b", "p", "s">>,
        min_year |-> 2010, priority |-> 1] >>

\* A JSON value of c_vintage: kind "none" (key absent, or null), "int" with
\* val, "str" with text.
NoVintage == [kind |-> "none", val |-> 0, text |-> <<>>]
IntVintage(n) == [kind |-> "int", val |-> n, text |-> <<>>]
StrVintage(t) == [kind |-> "str", val |-> 0, text |-> t]

\* Python truthiness of a vintage value.
Truthy(v) ==
    CASE v.kind = "none" -> FALSE
      [] v.kind = "int" -> v.val # 0
      [] v.kind = "str" -> v.text # <<>>

\* int(vintage): [ok |-> TRUE, val |-> n], or ok = FALSE when it raises
\* ValueError (a string that is not a decimal number).
IntOf(v) ==
    CASE v.kind = "int" -> [ok |-> TRUE, val |-> v.val]
      [] v.kind = "str" ->
           IF v.text # <<>> /\ \A i \in DOMAIN v.text : IsDigit(v.text[i])
           THEN [ok |-> TRUE, val |-> DigitsVal(v.text)]
           ELSE [ok |-> FALSE, val |-> 0]
      [] OTHER -> [ok |-> FALSE, val |-> 0]

\* The index in PRIORITY_DATASETS of the first pattern contained in the
\* lower-cased path, 0 when there is none.
FirstPattern(path) ==
    LET lowered == Lower(path)
        hits == { k \in DOMAIN PRIORITY_DATASETS :
                    Contains(PRIORITY_DATASETS[k].pattern, lowered) }
    IN  IF hits = {} THEN 0
        ELSE CHOOSE k \in hits : \A m \in hits : k <= m

\* Python's None where a string is expected.
None == <<>>

\* extract_dataset_type: [type |-> the pattern (or None),
\* path |-> the joined path (or None)].
extract_dataset_type(dataset) ==
    IF dataset.is_list
    THEN LET dataset_path == Join(dataset.c_dataset)
             k == FirstPattern(dataset_path)
         IN  IF k # 0
             THEN [type |-> PRIORITY_DATASETS[k].pattern, path |-> dataset_path]
             ELSE [type |-> None, path |-> None]
    ELSE [type |-> None, path |-> None]

\* PRIORITY_DATASETS[dataset_type]
DatasetInfo(dataset_type) ==
    PRIORITY_DATASETS[CHOOSE k \in DOMAIN PRIORITY_DATASETS :
                        PRIORITY_DATASETS[k].pattern = dataset_type]

\* The vintage floor of should_include_dataset, written without the floor.
VintageBelowMin_NoFloor(vintage, dataset_type) == FALSE
\* `year < min_year` inside the try block: FALSE too when int() raises.
VintageBelowMin(vintage, dataset_type) ==
    /\ Truthy(vintage)
    /\ IntOf(vintage).ok
    /\ IntOf(vintage).val < DatasetInfo(dataset_type).min_year

\* dataset.get('c_isAvailable', True), as a truth value.
IsAvailable(dataset) == dataset.c_isAvailable \in {"absent", "true"}

should_include_dataset(dataset) ==
    LET dataset_type == extract_dataset_type(dataset).type
    IN  /\ dataset_type # None
        /\ ~VintageBelowMin(dataset.c_vintage, dataset_type)
        /\ IsAvailable(dataset)

\* parse_dataset_metadata: the descriptor of the entry at position i of the
\* catalog document (dataset_id stands for its identifier).  Only the
\* fields some later step reads are kept.
parse_dataset_metadata(dataset, i) ==
    LET t == extract_dataset_type(dataset)
    IN  [ dataset_id |-> i,
          dataset_type |-> t.type,
          dataset_path |-> t.path,
          vintage |-> dataset.c_vintage,
          priority |-> IF t.type # None THEN DatasetInfo(t.type).priority
                       ELSE 99 ]

\* The second component of the sort key,
\* `-x.get('vintage', 0) if x.get('vintage') else 0`, written oldest first.
VintageKey_OldestFirst(v) == IF Truthy(v) THEN v.val ELSE 0
VintageKey(v) == IF Truthy(v) THEN 0 - v.val ELSE 0

\* Unary minus on a string raises TypeError.
KeyRaises(x) == Truthy(x.vintage) /\ x.vintage.kind = "str"

\* key(a) < key(b) for the key (priority, VintageKey).
KeyLess(a, b) ==
    \/ a.priority < b.priority
    \/ a.priority = b.priority /\ VintageKey(a.vintage) < VintageKey(b.vintage)

\* list.sort(key=...): a stable sort, here by insertion from the left.
RECURSIVE SortByKey(_)
SortByKey(l) ==
    IF l = <<>> THEN <<>>
    ELSE LET front == SortByKey(SubSeq(l, 1, Len(l) - 1))
             x == l[Len(l)]
             p == Cardinality({ i \in DOMAIN front : ~KeyLess(x, front[i]) })
         IN  SubSeq(front, 1, p) \o <<x>> \o SubSeq(front, p + 1, Len(front))

\* The filter loop of process_catalog: the descriptors of the included
\* entries, in catalog order.
RECURSIVE FilterCatalog(_, _)
FilterCatalog(c, n) ==
    IF n = 0 THEN <<>>
    ELSE IF should_include_dataset(c[n])
         THEN Append(FilterCatalog(c, n - 1), parse_dataset_metadata(c[n], n))
         ELSE FilterCatalog(c, n - 1)

\* dataset_counts: included entries per dataset type.
DatasetCounts(filtered) ==
    [ k \in { filtered[i].dataset_type : i \in DOMAIN filtered } |->
        Cardinality({ i \in DOMAIN filtered : filtered[i].dataset_type = k }) ]

NoCatalogState == [saved |-> FALSE, total_datasets |-> 0,
                   filtered_datasets |-> 0, dataset_counts |-> <<>>]

\* The entries a catalog document is drawn from.
CatalogPaths ==
    { <<<<"a", "c", "s">>, <<"a", "c", "s", "5">>>>,
      <<<<"z", "b", "p">>>>,
      <<<<"d", "e", "c">>, <<"s", "f", "1">>>>,
      <<<<"A", "C", "S">>, <<"f", "l", "o", "w", "s">>>>,
      <<<<"z", "b", "p">>, <<"c", "b", "p">>>>,
      <<<<"a", "s", "e">>, <<"c", "s", "a">>>> }

CatalogVintages ==
    { NoVintage, IntVintage(2009), IntVintage(2015), IntVintage(2021),
      StrVintage(<<"a", "b", "c">>), StrVintage(<<"2", "0", "0", "9">>) }

CatalogEntries ==
    { [is_list |-> TRUE, c_dataset |-> pth, c_vintage |-> v, c_isAvailable |-> "absent"] :
        pth \in CatalogPaths, v \in CatalogVintages }
    \cup { [is_list |-> TRUE, c_dataset |-> pth, c_vintage |-> IntVintage(2021),
            c_isAvailable |-> "false"] : pth \in CatalogPaths }
    \cup { [is_list |-> FALSE, c_dataset |-> <<>>, c_vintage |-> IntVintage(2021),
            c_isAvailable |-> "true"] }

SeqsUpTo(S, n) == UNION { [1 .. k -> S] : k \in 0 .. n }

CatIdle ==
    /\ catalog = <<>>
    /\ catPc = "idle"
    /\ catTable = <<>>
    /\ catState = NoCatalogState

CatInit ==
    /\ catalog \in SeqsUpTo(CatalogEntries, MaxCatalog)
    /\ catPc = "start"
    /\ catTable = <<>>
    /\ catState = NoCatalogState

\* process_catalog when get(CATALOG_URL) or response.json() raises: the
\* exception leaves process_catalog.
CatalogFetchFails ==
    /\ catPc = "start"
    /\ catPc' = "fetch_failed"
    /\ UNCHANGED <<catalog, catTable, catState>>
    /\ UNCHANGED nonCat

\* process_catalog on the catalog document: filter, sort, save_state, table.
\* The sort raises TypeError when a key cannot be computed, before anything
\* is saved or returned.
ProcessCatalog ==
    /\ catPc = "start"
    /\ LET filtered_datasets == FilterCatalog(catalog, Len(catalog))
       IN  IF \E i \in DOMAIN filtered_datasets : KeyRaises(filtered_datasets[i])
           THEN /\ catPc' = "raised"
                /\ UNCHANGED <<catTable, catState>>
           ELSE /\ catPc' = "done"
                /\ catTable' = SortByKey(filtered_datasets)
                /\ catState' = [saved |-> TRUE,
                                total_datasets |-> Len(catalog),
                                filtered_datasets |-> Len(filtered_datasets),
                                dataset_counts |-> DatasetCounts(filtered_datasets)]
    /\ UNCHANGED catalog
    /\ UNCHANGED nonCat

CatNext == CatalogFetchFails \/ ProcessCatalog

(***************************************************************************)
(* Variable discovery: variables.py                                        *)
(***************************************************************************)
\* PRIORITY_VARIABLES: per dataset type, the keys of its table.
PRIORITY_VARIABLES ==
    <<
      [ type |-> <<"a", "c", "s">>,
        codes |-> <<
          <<"B", "0", "1", "0", "0", "1">>, <<"B", "0", "2", "0", "0", "1">>,
          <<"B", "0", "3", "0", "0", "1">>, <<"B", "1", "9", "0", "1", "3">>,
          <<"B", "1", "9", "0", "0", "1">>, <<"B", "1", "7", "0", "0", "1">>,
          <<"B", "2", "2", "0", "0", "1">>, <<"B", "2", "5", "0", "0", "1">>,
          <<"B", "2", "5", "0", "7", "7">>, <<"B", "2", "5", "0", "0", "3">>,
          <<"B", "2", "5", "0", "6", "1">>, <<"B", "2", "3", "0", "2", "5">>,
          <<"B", "2", "4", "0", "1", "0">>, <<"B", "0", "8", "3", "0", "1">>,
          <<"B", "0", "8", "3", "0", "3">>, <<"B", "1", "5", "0", "0", "3">>,
          <<"B", "1", "4", "0", "0", "1">> >> ],
      [ type |-> <<"c", "b", "p">>,
        codes |-> <<
          <<"E", "M", "P">>, <<"P", "A", "Y", "A", "N", "N">>, <<"E", "S", "T", "A", "B">>,
          <<"E", "M", "P", "S", "Z", "E", "S">>, <<"P", "A", "Y", "Q", "T", "R", "1">> >> ],
      [ type |-> <<"p", "e", "p">>,
        codes |-> <<
          <<"P", "O", "P">>, <<"D", "E", "N", "S", "I", "T", "Y">>,
          <<"B", "I", "R", "T", "H", "S">>, <<"D", "E", "A", "T", "H", "S">>,
          <<"N", "A", "T", "U", "R", "A", "L", "I", "N", "C">>,
          <<"I", "N", "T", "E", "R", "N", "A", "T", "I", "O", "N", "A", "L", "M", "I", "G">>,
          <<"D", "O", "M", "E", "S", "T", "I", "C", "M", "I", "G">> >> ],
      [ type |-> <<"s", "a", "i", "p", "e">>,
        codes |-> <<
          <<"S", "A", "E", "P", "O", "V", "R", "T", "A", "L", "L", "_", "P", "T">>,
          <<"S", "A", "E", "P", "O", "V", "R", "T", "0", "_", "1", "7", "_", "P", "T">>,
          <<"S", "A", "E", "M", "H", "I", "_", "P", "T">> >> ],
      [ type |-> <<"s", "a", "h", "i", "e">>,
        codes |-> <<
          <<"N", "I", "C", "_", "P", "T">>, <<"N", "I", "P", "R", "_", "P", "T">>,
          <<"N", "U", "I", "_", "P", "T">> >> ],
      [ type |-> <<"i", "n", "t", "l", "t", "r", "a", "d", "e">>,
        codes |-> <<
          <<"I", "M", "P", "V", "A", "L">>, <<"E", "X", "P", "V", "A", "L">>,
          <<"B", "A", "L", "A", "N", "C", "E">> >> ]
    >>

HasPriorityTable(dataset_type) ==
    \E k \in DOMAIN PRIORITY_VARIABLES : PRIORITY_VARIABLES[k].type = dataset_type

\* PRIORITY_VARIABLES[dataset_type], as the set of its keys.
Priorities(dataset_type) ==
    LET t == PRIORITY_VARIABLES[CHOOSE k \in DOMAIN PRIORITY_VARIABLES :
                                  PRIORITY_VARIABLES[k].type = dataset_type]
    IN  { t.codes[i] : i \in DOMAIN t.codes }

\* ['for', 'in', 'ucgid']
ReservedTokens == { <<"f", "o", "r">>, <<"i", "n">>, <<"u", "c", "g", "i", "d">> }

\* ['cbp', 'pep', 'zbp', 'bps']
BroadTypes == { <<"c", "b", "p">>, <<"p", "e", "p">>, <<"z", "b", "p">>, <<"b", "p", "s">> }

\* The table-prefix test of is_priority_variable, written as exact match only.
PrefixMatch_ExactOnly(priorities, var_name) == var_name \in priorities
\* `for priority_prefix in priorities.keys(): if var_name.startswith(...)`
PrefixMatch(priorities, var_name) ==
    \E priority_prefix \in priorities : StartsWith(var_name, priority_prefix)

is_priority_variable(dataset_type, var_name) ==
    IF ~HasPriorityTable(dataset_type) THEN TRUE
    ELSE LET priorities == Priorities(dataset_type)
         IN  IF var_name \in priorities THEN TRUE
             ELSE IF PrefixMatch(priorities, var_name) THEN TRUE
             ELSE IF dataset_type \in BroadTypes
                  THEN ~StartsWith(var_name, <<"N", "A", "M", "E">>) /\ var_name \notin ReservedTokens
                  ELSE FALSE

\* `if var_name in ['for', 'in', 'ucgid']: continue`, written without it.
SkipsVariable_Never(var_name) == FALSE
SkipsVariable(var_name) == var_name \in ReservedTokens

\* parse_variable_metadata (label, concept, predicateType, group and
\* predicateOnly are copied from the dictionary and read by no filter).
parse_variable_metadata(var_name, dataset_row) ==
    [ dataset_type |-> dataset_row.dataset_type,
      dataset_path |-> dataset_row.dataset_path,
      vintage |-> dataset_row.vintage,
      variable_name |-> var_name ]

\* The loop of fetch_dataset_variables over the first n names of the
\* dictionary.
RECURSIVE ParseVariables(_, _, _)
ParseVariables(dataset_row, names, n) ==
    IF n = 0 THEN <<>>
    ELSE LET rest == ParseVariables(dataset_row, names, n - 1)
             var_name == names[n]
         IN  IF SkipsVariable(var_name) THEN rest
             ELSE IF is_priority_variable(dataset_row.dataset_type, var_name)
                  THEN Append(rest, parse_variable_metadata(var_name, dataset_row))
                  ELSE rest

\* fetch_dataset_variables; ok: get() and response.json() did not raise.
fetch_dataset_variables(dataset_row, names, ok) ==
    IF ~dataset_row.variables_link THEN <<>>
    ELSE IF ok THEN ParseVariables(dataset_row, names, Len(names))
    ELSE <<>>

\* The variable names a dictionary is drawn from, in the order a dictionary
\* lists them.
VarNames ==
    << <<"B", "0", "1", "0", "0", "1", "_", "0", "0", "1", "E">>,
       <<"E", "M", "P">>,
       <<"N", "A", "M", "E">>,
       <<"f", "o", "r">>,
       <<"i", "n">>,
       <<"u", "c", "g", "i", "d">>,
       <<"P", "O", "P">>,
       <<"S", "A", "E", "M", "H", "I", "_", "P", "T">>,
       <<"N", "I", "C", "_", "P", "T">>,
       <<"I", "M", "P", "V", "A", "L">> >>

\* The members of a set of positions of VarNames, in increasing order.
RECURSIVE NamesAt(_)
NamesAt(S) ==
    IF S = {} THEN <<>>
    ELSE LET m == CHOOSE x \in S : \A y \in S : x >= y
         IN  Append(NamesAt(S \ {m}), VarNames[m])

Dictionaries ==
    { NamesAt(S) : S \in { X \in SUBSET (DOMAIN VarNames) : Cardinality(X) <= MaxDictVars } }

\* The dataset types of the rows given to process_variables: the types with
\* a priority table, a broad type without one, and one that is neither.
RowTypes ==
    { PRIORITY_VARIABLES[k].type : k \in DOMAIN PRIORITY_VARIABLES }
    \cup { <<"z", "b", "p">>, <<"a", "s", "e">> }

DatasetRows ==
    { [dataset_type |-> t, dataset_path |-> t, vintage |-> 2021,
       variables_link |-> TRUE] : t \in RowTypes }
    \cup { [dataset_type |-> <<"a", "c", "s">>, dataset_path |-> <<"a", "c", "s">>, vintage |-> 2021,
            variables_link |-> FALSE] }

\* save_state("variables", ...) not called yet (its last_updated, the newest
\* `modified` of the catalog, is not modelled).
NoVarState == [saved |-> FALSE, total_variables |-> 0,
               dataset_variable_counts |-> {}]

VarIdle ==
    /\ datasets = <<>>
    /\ remoteDict = <<>>
    /\ varPc = "idle"
    /\ vi = 1
    /\ all_variables = <<>>
    /\ dataset_vars = <<>>
    /\ dataset_variable_counts = {}
    /\ varFetched = <<>>
    /\ varRequests = <<>>
    /\ varState = NoVarState

VarInit ==
    /\ datasets \in SeqsUpTo(DatasetRows, MaxDatasets)
    /\ remoteDict \in Dictionaries
    /\ varPc = "start"
    /\ vi = 1
    /\ all_variables = <<>>
    /\ dataset_vars = <<>>
    /\ dataset_variable_counts = {}
    /\ varFetched = [i \in DOMAIN datasets |-> "none"]
    /\ varRequests = <<>>
    /\ varState = NoVarState

\* dataset_variable_counts[key] = count, for key "{dataset_type}/{vintage}":
\* a later dataset with the same key overwrites an earlier one.
SetCount(counts, row, count) ==
    LET key == <<row.dataset_type, row.vintage>>
    IN  { c \in counts : c.key # key } \cup { [key |-> key, count |-> count] }

\* process_variables up to the dataset loop; with no dataset, to its end.
StartVariables ==
    /\ varPc = "start"
    /\ IF datasets = <<>>
       THEN /\ varPc' = "done"
            /\ varState' = [saved |-> TRUE, total_variables |-> 0,
                            dataset_variable_counts |-> {}]
       ELSE /\ varPc' = "loop"
            /\ UNCHANGED varState
    /\ UNCHANGED <<datasets, remoteDict, vi, all_variables, dataset_vars,
                   dataset_variable_counts, varFetched, varRequests>>
    /\ UNCHANGED nonVar

\* One iteration of the dataset loop of process_variables:
\* fetch_dataset_variables and the extension of all_variables; after the
\* last dataset, the save_state that ends process_variables.
FetchVariables ==
    /\ varPc = "loop"
    /\ \E ok \in BOOLEAN :
         LET row == datasets[vi]
             got == fetch_dataset_variables(row, remoteDict, ok)
             all == all_variables \o got
             counts == IF got # <<>>
                       THEN SetCount(dataset_variable_counts, row, Len(got))
                       ELSE dataset_variable_counts
         IN  /\ ~row.variables_link => ok
             /\ dataset_variable_counts' = counts
             /\ dataset_vars' = got
             /\ all_variables' = all
             /\ varFetched' = [varFetched EXCEPT ![vi] =
                                 IF ~row.variables_link THEN "nolink"
                                 ELSE IF ok THEN "ok" ELSE "failed"]
             /\ varRequests' = IF row.variables_link THEN Append(varRequests, vi)
                               ELSE varRequests
             /\ vi' = vi + 1
             /\ IF vi = Len(datasets)
                THEN /\ varPc' = "done"
                     /\ varState' = [saved |-> TRUE, total_variables |-> Len(all),
                                     dataset_variable_counts |-> counts]
                ELSE UNCHANGED <<varPc, varState>>
    /\ UNCHANGED <<datasets, remoteDict>>
    /\ UNCHANGED nonVar

VarNext == StartVariables \/ FetchVariables

(***************************************************************************)
(* Data fetcher: data_fetcher.py                                           *)
(***************************************************************************)
MAX_VARS_PER_REQUEST == 50

\* `if len(datasets_to_process) >= 10: break`
MaxDatasetsPerRun == 10

\* The cap test of the selection loop, written with > for >=.
CapReached_OffByOne(n) == n > MaxDatasetsPerRun
CapReached(n) == n >= MaxDatasetsPerRun

\* The selection loop of process_data_fetcher over ds[from ..], given the
\* datasets selected so far (processed_types is the set of their types).
RECURSIVE SelectFrom(_, _, _)
SelectFrom(ds, from, chosen) ==
    IF from > Len(ds) THEN chosen
    ELSE LET dataset == ds[from]
             processed_types == { chosen[i].dataset_type : i \in DOMAIN chosen }
         IN  IF dataset.dataset_type \notin processed_types
             THEN LET next == Append(chosen, dataset)
                  IN  IF CapReached(Len(next)) THEN next
                      ELSE SelectFrom(ds, from + 1, next)
             ELSE SelectFrom(ds, from + 1, chosen)

\* build_variable_groups before its loop.
NoGroups == [groups |-> <<>>, current_group |-> <<>>]

\* The size test of build_variable_groups, written with > for >=.
GroupFull_OffByOne(current_group) == Len(current_group) > MAX_VARS_PER_REQUEST
GroupFull(current_group) == Len(current_group) >= MAX_VARS_PER_REQUEST

\* One iteration of the loop of build_variable_groups.
GroupAdd(acc, var) ==
    LET current_group == Append(acc.current_group, var.variable_name)
    IN  IF GroupFull(current_group)
        THEN [groups |-> Append(acc.groups, current_group), current_group |-> <<>>]
        ELSE [groups |-> acc.groups, current_group |-> current_group]

\* `if current_group: groups.append(current_group)` and the return.
GroupEnd(acc) ==
    IF acc.current_group # <<>> THEN Append(acc.groups, acc.current_group)
    ELSE acc.groups

\* The rows of the catalog table given to process_data_fetcher: for every
\* type of a set of dataset types, one row per vintage of `shape`, the types
\* in the order of PRIORITY_DATASETS (which is not the order of priority).
RECURSIVE RowsOf(_, _, _)
RowsOf(types, shape, k) ==
    IF k = 0 THEN <<>>
    ELSE LET info == PRIORITY_DATASETS[k]
             mine == [ i \in DOMAIN shape |->
                         [ dataset_type |-> info.pattern,
                           vintage |-> shape[i],
                           priority |-> info.priority ] ]
         IN  RowsOf(types, shape, k - 1) \o (IF k \in types THEN mine ELSE <<>>)

\* The position of a row in the table stands for its dataset_id.
Numbered(l) ==
    [ i \in DOMAIN l |->
        [ dataset_id |-> i, dataset_type |-> l[i].dataset_type,
          vintage |-> l[i].vintage, priority |-> l[i].priority ] ]

VintageShapes ==
    UNION { [1 .. n -> {NoVintage, IntVintage(2020), IntVintage(2021)}] :
              n \in 1 .. MaxPerType }

SelIdle ==
    /\ catalog_data = <<>>
    /\ selPc = "idle"
    /\ sorted_datasets = <<>>
    /\ datasets_to_process = <<>>

SelInit ==
    /\ \E types \in SUBSET (DOMAIN PRIORITY_DATASETS), shape \in VintageShapes :
         catalog_data = Numbered(RowsOf(types, shape, Len(PRIORITY_DATASETS)))
    /\ selPc = "start"
    /\ sorted_datasets = <<>>
    /\ datasets_to_process = <<>>

\* process_data_fetcher: the sort of the catalog rows and the selection of
\* the datasets to process.
SelectDatasets ==
    /\ selPc = "start"
    /\ selPc' = "done"
    /\ sorted_datasets' = SortByKey(catalog_data)
    /\ datasets_to_process' = SelectFrom(sorted_datasets', 1, <<>>)
    /\ UNCHANGED catalog_data
    /\ UNCHANGED nonSel

SelNext == SelectDatasets

GrpIdle ==
    /\ variables = <<>>
    /\ grpPc = "idle"
    /\ gi = 1
    /\ groupAcc = NoGroups
    /\ variable_groups = <<>>

\* The variables of a dataset: n descriptors with pairwise distinct names
\* (the number i stands for the i-th name).
GrpInit ==
    /\ variables \in { [i \in 1 .. n |-> [variable_name |-> i]] : n \in 0 .. MaxVariables }
    /\ grpPc = "start"
    /\ gi = 1
    /\ groupAcc = NoGroups
    /\ variable_groups = <<>>

\* build_variable_groups up to its loop; with no variable, to its return.
StartGroups ==
    /\ grpPc = "start"
    /\ IF variables = <<>>
       THEN /\ grpPc' = "done"
            /\ variable_groups' = GroupEnd(groupAcc)
       ELSE /\ grpPc' = "loop"
            /\ UNCHANGED variable_groups
    /\ UNCHANGED <<variables, gi, groupAcc>>
    /\ UNCHANGED nonGrp

\* One iteration of the loop of build_variable_groups; after the last
\* variable, the final append and the return.
AddVariable ==
    /\ grpPc = "loop"
    /\ groupAcc' = GroupAdd(groupAcc, variables[gi])
    /\ gi' = gi + 1
    /\ IF gi = Len(variables)
       THEN /\ grpPc' = "done"
            /\ variable_groups' = GroupEnd(groupAcc')
       ELSE UNCHANGED <<grpPc, variable_groups>>
    /\ UNCHANGED variables
    /\ UNCHANGED nonGrp

GrpNext == StartGroups \/ AddVariable

(***************************************************************************)
(* Data fetcher, response parsing: parse_api_response                      *)
(***************************************************************************)
\* A cell of a response: JSON null, or a string.
NullCell == [null |-> TRUE, text |-> <<>>]
Cell(t) == [null |-> FALSE, text |-> t]

\* A value_numeric: None, or the number mant / 10^scale (scale as small as
\* possible).
NoNumber == [none |-> TRUE, mant |-> 0, scale |-> 0]
Number(m, sc) == [none |-> FALSE, mant |-> m, scale |-> sc]

\* str.strip() of blanks, as float() does before parsing.
RECURSIVE Strip(_)
Strip(t) ==
    IF t = <<>> THEN t
    ELSE IF t[1] = " " THEN Strip(Tail(t))
    ELSE IF t[Len(t)] = " " THEN Strip(SubSeq(t, 1, Len(t) - 1))
    ELSE t

RECURSIVE Normalize(_, _)
Normalize(m, sc) ==
    IF sc > 0 /\ m % 10 = 0 THEN Normalize(m \div 10, sc - 1) ELSE Number(m, sc)

\* float(text) for decimal notation (sign, digits, at most one point):
\* [ok |-> FALSE] stands for ValueError.  Exponents, inf and nan are not
\* modelled: no cell of the model uses them.
FloatOf(text) ==
    LET t == Strip(text)
        signed == t # <<>> /\ t[1] \in {"-", "+"}
        body == IF signed THEN Tail(t) ELSE t
        points == { i \in DOMAIN body : body[i] = "." }
        digits == SelectSeq(body, IsDigit)
        wellFormed == /\ digits # <<>>
                      /\ Cardinality(points) <= 1
                      /\ \A i \in DOMAIN body : IsDigit(body[i]) \/ body[i] = "."
        scale == IF points = {} THEN 0
                 ELSE Len(body) - (CHOOSE i \in points : TRUE)
        m == DigitsVal(digits)
    IN  IF wellFormed
        THEN [ok |-> TRUE,
              num |-> Normalize(IF signed /\ t[1] = "-" THEN 0 - m ELSE m, scale)]
        ELSE [ok |-> FALSE, num |-> NoNumber]

\* ['null', 'N/A', '-']
NotAvailable == { <<"n", "u", "l", "l">>, <<"N", "/", "A">>, <<"-">> }

\* `except (ValueError, TypeError): record['value_numeric'] = None`, and the
\* same clause written with 0.0 for None.
OnValueError_Zero == Number(0, 0)
OnValueError == NoNumber

\* The try block that sets record['value_numeric'].
NumericOf(value) ==
    IF ~value.null /\ value.text # <<>> /\ value.text \notin NotAvailable
    THEN IF FloatOf(value.text).ok THEN FloatOf(value.text).num ELSE OnValueError
    ELSE NoNumber

\* header_idx: the position of h in headers (the last one, as the dict
\* comprehension overwrites), 0 when absent.  Positions count from 1.
HeaderIdx(headers, h) ==
    LET at == { i \in DOMAIN headers : headers[i] = h }
    IN  IF at = {} THEN 0 ELSE CHOOSE i \in at : \A j \in at : i >= j

\* The identifier columns of the base record, as (record key, column name).
GeoColumns ==
    << [key |-> "state_fips", column |-> <<"s", "t", "a", "t", "e">>],
       [key |-> "county_fips", column |-> <<"c", "o", "u", "n", "t", "y">>],
       [key |-> "place_fips", column |-> <<"p", "l", "a", "c", "e">>] >>

NameColumn == <<"N", "A", "M", "E">>

\* header_idx.get('NAME', 0), counted from 1.
NameIdx(headers) ==
    IF HeaderIdx(headers, NameColumn) = 0 THEN 1 ELSE HeaderIdx(headers, NameColumn)

\* The positions of `row` the loop body of parse_api_response reads.
PositionsRead(headers, vmap) ==
    {NameIdx(headers)}
    \cup { HeaderIdx(headers, GeoColumns[g].column) : g \in DOMAIN GeoColumns }
    \cup { HeaderIdx(headers, vmap[v].variable_name) : v \in DOMAIN vmap }

\* Reading row[i] past the end of the row raises IndexError.
RowRaises(headers, row, vmap) ==
    \E i \in PositionsRead(headers, vmap) : i > Len(row)

\* The records of one row (r: its position among the data rows, kept in the
\* record as src_row to trace it back): one per variable of variable_map
\* that is a column of the header, in the order of variable_map.
\* header_idx is the dict built once from the header.
RowRecords(headers, row, r, dataset_info, vmap) ==
    LET header_idx == [ h \in { headers[i] : i \in DOMAIN headers } |->
                          HeaderIdx(headers, h) ]
        InHeader(v) == v.variable_name \in DOMAIN header_idx
        found == SelectSeq(vmap, InHeader)
        base_geo == { [key |-> GeoColumns[g].key,
                       value |-> row[header_idx[GeoColumns[g].column]]] :
                        g \in { c \in DOMAIN GeoColumns :
                                  GeoColumns[c].column \in DOMAIN header_idx } }
        geography_name == row[NameIdx(headers)]
    IN  [ k \in DOMAIN found |->
            [ dataset_type |-> dataset_info.dataset_type,
              vintage |-> dataset_info.vintage,
              geography_name |-> geography_name,
              geo |-> base_geo,
              variable |-> found[k].variable_name,
              value |-> row[header_idx[found[k].variable_name]],
              label |-> found[k].label,
              value_numeric |-> NumericOf(row[header_idx[found[k].variable_name]]),
              src_row |-> r ] ]

\* The row loop of parse_api_response over the first n data rows.
RECURSIVE ParseRows(_, _, _, _)
ParseRows(d, dataset_info, vmap, n) ==
    IF n = 0 THEN [raised |-> FALSE, records |-> <<>>]
    ELSE LET before == ParseRows(d, dataset_info, vmap, n - 1)
             row == d[n + 1]
         IN  IF before.raised \/ RowRaises(d[1], row, vmap)
             THEN [raised |-> TRUE, records |-> <<>>]
             ELSE [raised |-> FALSE,
                   records |-> before.records
                                 \o RowRecords(d[1], row, n, dataset_info, vmap)]

parse_api_response(d, dataset_info, vmap) ==
    IF d = <<>> \/ Len(d) < 2 THEN [raised |-> FALSE, records |-> <<>>]
    ELSE ParseRows(d, dataset_info, vmap, Len(d) - 1)

\* The inputs of the parser.
V1 == <<"B", "0", "1", "0", "0", "3", "_", "0", "0", "1", "E">>
V2 == <<"B", "2", "5", "0", "0", "1", "_", "0", "0", "1", "E">>
V3 == <<"B", "1", "9", "0", "1", "3", "_", "0", "0", "1", "E">>

Headers ==
    { <<NameColumn, <<"s", "t", "a", "t", "e">>, V1>>,
      <<NameColumn, V1, V2, <<"s", "t", "a", "t", "e">>, <<"c", "o", "u", "n", "t", "y">>>>,
      <<V1, <<"s", "t", "a", "t", "e">>>>,
      <<NameColumn, <<"s", "t", "a", "t", "e">>, V1, V2>> }

VariableMaps ==
    { <<[variable_name |-> V1, label |-> "Total"]>>,
      <<[variable_name |-> V1, label |-> "Total"],
        [variable_name |-> V2, label |-> "Units"]>>,
      <<[variable_name |-> V2, label |-> "Units"],
        [variable_name |-> V3, label |-> "Income"]>> }

Cells ==
    { NullCell, Cell(<<>>), Cell(<<"-">>), Cell(<<".">>), Cell(<<"4", "2", ".", "5">>), Cell(<<"5", "0", "3", "0", "0", "0", "0">>),
      Cell(<<"N", "/", "A">>), Cell(<<"n", "u", "l", "l">>), Cell(<<"a", "b", "c">>), Cell(<<"0">>), Cell(<<"-", "7", ".", "0">>) }

GeographyNames == << <<"A", "l", "a", "b", "a", "m", "a">>, <<"G", "e", "o", "r", "g", "i", "a">>, <<"T", "e", "x", "a", "s">>, <<"U", "t", "a", "h">> >>

\* A data row under `headers`: the r-th geography name, fixed identifiers,
\* cell c in column V1; "short" drops its last cell and "long" adds one.
FullRow(headers, r, c) ==
    [ i \in DOMAIN headers |->
        IF headers[i] = NameColumn THEN Cell(GeographyNames[r])
        ELSE IF headers[i] = V1 THEN c
        ELSE IF headers[i] = V2 THEN Cell(<<"7">>)
        ELSE Cell(<<"0", "1">>) ]

DataRow(headers, r, c, shape) ==
    CASE shape = "ok" -> FullRow(headers, r, c)
      [] shape = "short" -> SubSeq(FullRow(headers, r, c), 1, Len(headers) - 1)
      [] shape = "long" -> Append(FullRow(headers, r, c), Cell(<<"x">>))

RowChoices == [c : Cells, shape : {"ok", "short", "long"}]

DatasetInfo2021 == [dataset_type |-> <<"a", "c", "s">>, vintage |-> 2021]

ParseIdle ==
    /\ data = <<>>
    /\ variable_map = <<>>
    /\ parsePc = "idle"
    /\ parsed = [raised |-> FALSE, records |-> <<>>]

ParseInit ==
    /\ \E headers \in Headers, choice \in SeqsUpTo(RowChoices, MaxRows) :
         \/ data = <<headers>> \o [ r \in DOMAIN choice |->
                                     DataRow(headers, r, choice[r].c, choice[r].shape) ]
         \/ data = <<>>
    /\ variable_map \in VariableMaps
    /\ parsePc = "start"
    /\ parsed = [raised |-> FALSE, records |-> <<>>]

\* parse_api_response(data, dataset_info, variable_map)
ParseResponse ==
    /\ parsePc = "start"
    /\ parsePc' = "done"
    /\ parsed' = parse_api_response(data, DatasetInfo2021, variable_map)
    /\ UNCHANGED <<data, variable_map>>
    /\ UNCHANGED nonParse

ParseNext == ParseResponse

(***************************************************************************)
(* Data fetcher, the dataset loop: fetch_census_data, process_dataset_data *)
(* and the upload loop of process_data_fetcher                             *)
(***************************************************************************)
\* GEOGRAPHY_LEVELS, in the order of the dict; columns: the identifier
\* columns the API adds to a response for that geography.
GEOGRAPHY_LEVELS ==
    << [geo_name |-> "state", columns |-> << <<"s", "t", "a", "t", "e">> >>],
       [geo_name |-> "county", columns |-> << <<"s", "t", "a", "t", "e">>, <<"c", "o", "u", "n", "t", "y">> >>] >>

\* str() of a natural number.
RECURSIVE Str(_)
Str(n) ==
    IF n < 10 THEN <<Digits[n + 1]>>
    ELSE Append(Str(n \div 10), Digits[(n % 10) + 1])

\* f"{dataset['dataset_type']}_{dataset['vintage']}"
DatasetName(dataset) ==
    dataset.dataset_type \o <<"_">>
      \o (IF dataset.vintage.kind = "int" THEN Str(dataset.vintage.val)
          ELSE <<"N", "o", "n", "e">>)

\* The variables of a dataset in variables_by_dataset: n descriptors with
\* pairwise distinct names; `named`: the first one is the dictionary's entry
\* NAME, which variable discovery keeps for a dataset type that has no
\* priority-variable table.
DatasetVariables(n, named) ==
    [ i \in 1 .. n |->
        [variable_name |-> IF named /\ i = 1 THEN NameColumn ELSE <<"V">> \o Str(i),
         label |-> "label"] ]

\* variable_map = {v['variable_name']: v for v in variables}; the names of
\* DatasetVariables are distinct, so the dict has the order of the list.
VariableMapOf(dataset_variables) == dataset_variables

\* build_variable_groups as a function of its argument.
\* The loop of build_variable_groups over vs[lo .. hi], from the state acc.
\* The range is walked left to right, split in halves.  Operator arguments
\* are evaluated on demand: the test on `left` has the state after the left
\* half computed before the right half starts, as in the loop.
RECURSIVE GroupFold(_, _, _, _)
GroupFold(acc, vs, lo, hi) ==
    IF lo > hi THEN acc
    ELSE IF lo = hi THEN GroupAdd(acc, vs[lo])
    ELSE LET mid == (lo + hi) \div 2
             left == GroupFold(acc, vs, lo, mid)
         IN  IF Len(left.groups) >= 0 THEN GroupFold(left, vs, mid + 1, hi)
             ELSE left

build_variable_groups(vs) == GroupEnd(GroupFold(NoGroups, vs, 1, Len(vs)))

\* What the API answers to one request: the header echoes the request
\* ('get': NAME and the batch's names, then the geography columns).
ResponseHeader(var_group, g) ==
    <<NameColumn>> \o var_group \o GEOGRAPHY_LEVELS[g].columns

ResponseRow(var_group, g) ==
    <<Cell(GeographyNames[1])>>
      \o [ i \in DOMAIN var_group |->
             IF var_group[i] = NameColumn THEN Cell(GeographyNames[1])
             ELSE Cell(<<"5", "0", "3", "0", "0", "0", "0">>) ]
      \o [ i \in DOMAIN GEOGRAPHY_LEVELS[g].columns |-> Cell(<<"0", "1">>) ]

\* Outcomes of the get() of fetch_census_data:
\*   "error"   get() or response.json() raised
\*   "short"   a body of the header row only
\*   "rows"    a header and one data row
\*   "badrow"  a header and one data row that lacks its last cell
FetchOutcomes == {"error", "short", "rows", "badrow"}

\* `except Exception as e: print(...)`: the exception is swallowed, and the
\* same clause written to let it out.
OnFetchError_Propagates == "raise"
OnFetchError == "none"

\* fetch_census_data: [raised, data]; data = <<>> stands for None.
fetch_census_data(api_endpoint, var_group, g, outcome) ==
    IF ~api_endpoint \/ var_group = <<>>
    THEN [raised |-> FALSE, data |-> <<>>]
    ELSE CASE outcome = "error" ->
                [raised |-> OnFetchError = "raise", data |-> <<>>]
           [] outcome = "short" ->
                [raised |-> FALSE, data |-> <<>>]
           [] outcome = "rows" ->
                [raised |-> FALSE,
                 data |-> <<ResponseHeader(var_group, g), ResponseRow(var_group, g)>>]
           [] outcome = "badrow" ->
                [raised |-> FALSE,
                 data |-> <<ResponseHeader(var_group, g),
                            SubSeq(ResponseRow(var_group, g), 1,
                                   Len(ResponseRow(var_group, g)) - 1)>>]

\* The datasets process_data_fetcher walks through: datasets_to_process
\* (pairwise distinct dataset types), each with its list in
\* variables_by_dataset (dataset_variables) and whether its api_endpoint is
\* a non-empty string.
FetchDataset(k, n, endpoint, vintage, named) ==
    [ dataset_type |-> PRIORITY_DATASETS[IF named THEN k + 3 ELSE k].pattern,
      dataset_path |-> PRIORITY_DATASETS[IF named THEN k + 3 ELSE k].pattern,
      vintage |-> vintage,
      api_endpoint |-> endpoint,
      dataset_variables |-> DatasetVariables(n, named) ]

\* How the k-th dataset may look: no variable; one batch; no API endpoint;
\* no vintage; two batches, of a dataset type without a priority-variable
\* table (zbp, ase, abscs) and so with NAME among its variables.
DatasetShapes ==
    { [n |-> 0, endpoint |-> TRUE, vintage |-> IntVintage(2021), named |-> FALSE],
      [n |-> 1, endpoint |-> TRUE, vintage |-> IntVintage(2021), named |-> FALSE],
      [n |-> 1, endpoint |-> FALSE, vintage |-> IntVintage(2021), named |-> FALSE],
      [n |-> 1, endpoint |-> TRUE, vintage |-> NoVintage, named |-> FALSE],
      [n |-> MAX_VARS_PER_REQUEST + 1, endpoint |-> TRUE, vintage |-> IntVintage(2021),
       named |-> TRUE] }

\* `if records:` and `if dataset_records:`, and the tests left out.
HasRecords_Always(records) == TRUE
HasRecords(records) == records # <<>>

\* The variable names of a list of records, in order.
KeysOf(records) == [ i \in DOMAIN records |-> records[i].variable ]

NoFetchState == [saved |-> FALSE, datasets_processed |-> 0, total_records |-> 0]

\* The first dataset at or after position i for which process_dataset_data
\* issues requests (it has variables and an endpoint); 0 when there is none.
\* The datasets before it are passed over: `continue` without variables,
\* `return []` and no upload without an endpoint.
NextFetched(ds, i) ==
    LET later == { j \in i .. Len(ds) :
                     ds[j].dataset_variables # <<>> /\ ds[j].api_endpoint }
    IN  IF later = {} THEN 0 ELSE CHOOSE j \in later : \A m \in later : j <= m

FetchIdle ==
    /\ dfDatasets = <<>>
    /\ dfPc = "idle"
    /\ di = 1
    /\ geoIdx = 1
    /\ groupIdx = 1
    /\ dsGroups = <<>>
    /\ dsRecords = <<>>
    /\ total_records = 0
    /\ uploads = <<>>
    /\ dfRequests = <<>>
    /\ dfState = NoFetchState

FetchInit ==
    /\ \E shapes \in SeqsUpTo(DatasetShapes, MaxFetchDatasets) :
         dfDatasets = [ k \in DOMAIN shapes |->
                          FetchDataset(k, shapes[k].n, shapes[k].endpoint,
                                       shapes[k].vintage, shapes[k].named) ]
    /\ dfPc = "start"
    /\ di = 1
    /\ geoIdx = 1
    /\ groupIdx = 1
    /\ dsGroups = <<>>
    /\ dsRecords = <<>>
    /\ total_records = 0
    /\ uploads = <<>>
    /\ dfRequests = <<>>
    /\ dfState = NoFetchState

\* The dataset loop from position i up to the next request: the start of
\* process_dataset_data for the next dataset that issues requests, or the
\* end of the loop and save_state("data_fetcher", ...).
GoToDataset(i, total) ==
    /\ total_records' = total
    /\ dsRecords' = <<>>
    /\ geoIdx' = 1
    /\ groupIdx' = 1
    /\ IF NextFetched(dfDatasets, i) # 0
       THEN /\ di' = NextFetched(dfDatasets, i)
            /\ dsGroups' = build_variable_groups(dfDatasets[di'].dataset_variables)
            /\ dfPc' = "fetch"
            /\ UNCHANGED dfState
       ELSE /\ di' = Len(dfDatasets) + 1
            /\ dsGroups' = <<>>
            /\ dfPc' = "done"
            /\ dfState' = [saved |-> TRUE,
                           datasets_processed |-> Len(dfDatasets),
                           total_records |-> total]

\* process_data_fetcher from `all_records = []` to its first request.
StartFetcher ==
    /\ dfPc = "start"
    /\ GoToDataset(1, 0)
    /\ UNCHANGED <<dfDatasets, uploads, dfRequests>>
    /\ UNCHANGED nonFetch

\* One fetch_census_data call of process_dataset_data and what follows it up
\* to the next call: the parsing of the response, and after the last batch
\* of the last geography the return of process_dataset_data, the upload of
\* the dataset's table and the rest of the dataset loop.
FetchBatch ==
    /\ dfPc = "fetch"
    /\ \E outcome \in FetchOutcomes :
       \E fetched \in { fetch_census_data(dfDatasets[di].api_endpoint,
                                          dsGroups[groupIdx], geoIdx, outcome) } :
       \E got \in { IF fetched.data # <<>>
                    THEN parse_api_response(fetched.data, dfDatasets[di],
                                            VariableMapOf(dfDatasets[di].dataset_variables))
                    ELSE [raised |-> FALSE, records |-> <<>>] } :
         LET dataset == dfDatasets[di]
             records == dsRecords \o got.records
             SameType(r) == r.dataset_type = dataset.dataset_type
             dataset_records == SelectSeq(records, SameType)
         IN  /\ dfRequests' = Append(dfRequests,
                                [dataset |-> di, geo |-> geoIdx, group |-> groupIdx,
                                 usable |-> fetched.data # <<>>,
                                 keys |-> KeysOf(got.records)])
             /\ IF fetched.raised \/ got.raised
                THEN /\ dfPc' = "raised"
                     /\ UNCHANGED <<di, geoIdx, groupIdx, dsGroups, dsRecords,
                                    total_records, uploads, dfState>>
                ELSE IF groupIdx < Len(dsGroups)
                THEN /\ groupIdx' = groupIdx + 1
                     /\ dsRecords' = records
                     /\ UNCHANGED <<dfPc, di, geoIdx, dsGroups, total_records,
                                    uploads, dfState>>
                ELSE IF geoIdx < Len(GEOGRAPHY_LEVELS)
                THEN /\ geoIdx' = geoIdx + 1
                     /\ groupIdx' = 1
                     /\ dsRecords' = records
                     /\ UNCHANGED <<dfPc, di, dsGroups, total_records, uploads, dfState>>
                ELSE /\ uploads' = IF HasRecords(records) /\ HasRecords(dataset_records)
                                   THEN Append(uploads,
                                          [dataset_name |-> DatasetName(dataset),
                                           table |-> dataset_records,
                                           dataset |-> di,
                                           requests |-> Len(dfRequests')])
                                   ELSE uploads
                     /\ GoToDataset(di + 1, total_records + Len(records))
    /\ UNCHANGED dfDatasets
    /\ UNCHANGED nonFetch

FetchNext == StartFetcher \/ FetchBatch

(***************************************************************************)
(* Specifications, one per component.                                      *)
(***************************************************************************)
\* The time-series fetchers.
Init == TSInit /\ CatIdle /\ VarIdle /\ SelIdle /\ GrpIdle /\ ParseIdle /\ FetchIdle
Next == TSNext
Spec == Init /\ [][Next]_vars

\* Catalog discovery.
InitCatalog == CatInit /\ TSIdle /\ VarIdle /\ SelIdle /\ GrpIdle /\ ParseIdle /\ FetchIdle
SpecCatalog == InitCatalog /\ [][CatNext]_vars

\* Variable discovery.
InitVariables == VarInit /\ TSIdle /\ CatIdle /\ SelIdle /\ GrpIdle /\ ParseIdle /\ FetchIdle
SpecVariables == InitVariables /\ [][VarNext]_vars

\* The dataset selection of the data fetcher.
InitSelect == SelInit /\ TSIdle /\ CatIdle /\ VarIdle /\ GrpIdle /\ ParseIdle /\ FetchIdle
SpecSelect == InitSelect /\ [][SelNext]_vars

\* The catalog sort, at both places that sort: process_catalog and
\* process_data_fetcher.
InitSort == InitCatalog \/ InitSelect
NextSort == CatalogFetchFails \/ ProcessCatalog \/ SelectDatasets
SpecSort == InitSort /\ [][NextSort]_vars

\* The variable batches of the data fetcher.
InitGroups == GrpInit /\ TSIdle /\ CatIdle /\ VarIdle /\ SelIdle /\ ParseIdle /\ FetchIdle
SpecGroups == InitGroups /\ [][GrpNext]_vars

\* The response parser of the data fetcher.
InitParse == ParseInit /\ TSIdle /\ CatIdle /\ VarIdle /\ SelIdle /\ GrpIdle /\ FetchIdle
SpecParse == InitParse /\ [][ParseNext]_vars

\* The dataset loop of the data fetcher.
InitFetch == FetchInit /\ TSIdle /\ CatIdle /\ VarIdle /\ SelIdle /\ GrpIdle /\ ParseIdle
SpecFetch == InitFetch /\ [][FetchNext]_vars

\* Variable discovery and the dataset loop of the data fetcher: the two
\* loops over fetched units.
InitUnits == InitVariables \/ InitFetch
NextUnits == StartVariables \/ FetchVariables \/ StartFetcher \/ FetchBatch
SpecUnits == InitUnits /\ [][NextUnits]_vars

(***************************************************************************)
(* Claims about the time-series fetchers.                                  *)
(***************************************************************************)
\* The years of the records accumulated in all_records.
RecYears == { all_records[i].year : i \in DOMAIN all_records }

\* The years of the range of the current run.
RunYears == FirstYear(last_year) .. (EndYear(dom, current_year) - 1)

\* C1: after a run whose years Y1 < ... < Yn were all processed successfully
\* the persisted last_year_processed is Yn; and once year Yk failed with a
\* "404" (not yet available) error, the persisted watermark stays below Yk
\* and no year later than Yk is requested in that run.
C1_WatermarkStopsAtUnavailableYear ==
    /\ (pc = "done" /\ RunYears # {} /\ errYears = {} /\ RunYears \subseteq RecYears)
          => StateGet(store[dom]) = EndYear(dom, current_year) - 1
    /\ \A yk \in notAvail :
          /\ StateGet(store[dom]) < yk
          /\ \A y \in requested : y <= yk

\* C2: save_state is called only for a year whose own unit of work
\* succeeded: never for a year in which every fetch failed or which
\* produced no records.
C2_SavedYearsProducedRecords ==
    \A i \in DOMAIN saved : saved[i] \in RecYears

\* C3: the persisted last_year_processed never decreases, over any number
\* of runs; every value written by save_state is strictly greater than the
\* value loaded at the start of the run, not lower than any value written
\* earlier in the run, and is what the store then holds.
C3_WatermarkMonotone ==
    [][ /\ StateGet(store'[dom]) >= StateGet(store[dom])
        /\ store' # store => Len(saved') > Len(saved)
        /\ Len(saved') > Len(saved) =>
             LET v == saved'[Len(saved')]
             IN  /\ v > last_year'
                 /\ \A i \in DOMAIN saved : saved[i] <= v
                 /\ store'[dom] = YearState(v) ]_vars

\* A second run that loaded a watermark written by the first one and wrote
\* two more.
C3_Witness ==
    /\ runs = 2
    /\ last_year > DefaultLastYear
    /\ Len(saved) >= 2

(***************************************************************************)
(* Claims about catalog discovery.                                         *)
(***************************************************************************)
\* The patterns (as indices of PRIORITY_DATASETS) the joined, lower-cased
\* dataset path of a catalog entry contains.
PatternsIn(e) ==
    IF e.is_list
    THEN { k \in DOMAIN PRIORITY_DATASETS :
             Contains(PRIORITY_DATASETS[k].pattern, Lower(Join(e.c_dataset))) }
    ELSE {}

Emitted(i) == \E j \in DOMAIN catTable : catTable[j].dataset_id = i

\* C4: once process_catalog has run on a fetched catalog, it has emitted a
\* descriptor for an entry iff the entry's path contains a priority pattern,
\* its availability flag (default true) is true, and its vintage is absent,
\* unparseable or at least the minimum vintage of the matched pattern; the
\* descriptor's dataset_type is the first pattern, in table order, that the
\* path contains.
C4_EmittedIffIncluded ==
    catPc \in {"done", "raised"} =>
      \A i \in DOMAIN catalog :
        LET e == catalog[i]
            hits == PatternsIn(e)
            first == CHOOSE k \in hits : \A m \in hits : k <= m
            v == e.c_vintage
        IN  /\ Emitted(i) <=>
                 /\ hits # {}
                 /\ e.c_isAvailable # "false"
                 /\ \/ v.kind = "none"
                    \/ ~IntOf(v).ok
                    \/ IntOf(v).val >= PRIORITY_DATASETS[first].min_year
            /\ \A j \in DOMAIN catTable :
                 catTable[j].dataset_id = i =>
                    /\ catTable[j].dataset_type # None
                    /\ catTable[j].dataset_type = PRIORITY_DATASETS[first].pattern

HasVintage(x) == x.vintage.kind # "none"

\* The sort order of C5, of a sorted list of rows.
SortedRows(rows) ==
    \A i, j \in DOMAIN rows :
       i < j =>
         LET a == rows[i]
             b == rows[j]
         IN  /\ a.priority <= b.priority
             /\ a.priority = b.priority =>
                  /\ HasVintage(a) /\ HasVintage(b) => a.vintage.val >= b.vintage.val
                  /\ HasVintage(b) => HasVintage(a)
                  /\ (a.vintage = b.vintage) => a.dataset_id < b.dataset_id

\* C5: the catalog sort, in process_catalog and in process_data_fetcher,
\* yields a stable rearrangement of its input: lower priority numbers
\* first; within a priority higher vintages first and entries without a
\* vintage last; entries that tie keep the order they had.
C5_SortOrder ==
    /\ catPc = "done" =>
         /\ Len(catTable) = Cardinality({ i \in DOMAIN catalog : Emitted(i) })
         /\ \A i \in DOMAIN catalog : Emitted(i) <=> should_include_dataset(catalog[i])
         /\ SortedRows(catTable)
    /\ selPc = "done" =>
         /\ Len(sorted_datasets) = Len(catalog_data)
         /\ \A i \in DOMAIN catalog_data :
               \E j \in DOMAIN sorted_datasets : sorted_datasets[j] = catalog_data[i]
         /\ SortedRows(sorted_datasets)

\* Two entries of one priority that the sort exchanged: the later one of
\* the catalog has the newer vintage.
C5_Witness ==
    /\ catPc = "done"
    /\ Len(catTable) = 2
    /\ catTable[1].priority = catTable[2].priority
    /\ catTable[1].dataset_id > catTable[2].dataset_id
    /\ HasVintage(catTable[1])

(***************************************************************************)
(* Claims about variable discovery.                                        *)
(***************************************************************************)
\* The dataset whose dictionary the last iteration fetched.
LastRow == datasets[vi - 1]

LastFetchOk == vi > 1 /\ varFetched[vi - 1] = "ok"

Included(var_name) ==
    \E j \in DOMAIN dataset_vars : dataset_vars[j].variable_name = var_name

DictNames == { remoteDict[i] : i \in DOMAIN remoteDict }

\* The name is a key of the type's table, or starts with one.
MatchesTable(dataset_type, var_name) ==
    \E k \in DOMAIN PRIORITY_VARIABLES :
      /\ PRIORITY_VARIABLES[k].type = dataset_type
      /\ \E c \in DOMAIN PRIORITY_VARIABLES[k].codes :
           LET code == PRIORITY_VARIABLES[k].codes[c]
           IN  var_name = code \/ StartsWith(var_name, code)

\* C6 (as stated): for a dataset type with a priority-variable table, a
\* variable of the dictionary is included iff its name is a table entry or
\* starts with one of the table's codes.
C6_IncludedIffTableMatch ==
    (LastFetchOk /\ HasPriorityTable(LastRow.dataset_type)) =>
       \A n \in DictNames :
          /\ Included(n) <=> MatchesTable(LastRow.dataset_type, n)
          /\ is_priority_variable(LastRow.dataset_type, n)
               <=> MatchesTable(LastRow.dataset_type, n)

\* C6 (amended): for acs, saipe, sahie and intltrade a variable is included
\* iff its name is a table entry or starts with a table code; for cbp and
\* pep, which are also broad-inclusion types, it is included iff that holds
\* or its name neither starts with "NAME" nor is a reserved token.
C6_IncludedIffTableMatchOrBroad ==
    (LastFetchOk /\ HasPriorityTable(LastRow.dataset_type)) =>
       \A n \in DictNames :
          LET t == LastRow.dataset_type
              broad == /\ t \in {<<"c", "b", "p">>, <<"p", "e", "p">>}
                       /\ ~StartsWith(n, <<"N", "A", "M", "E">>)
                       /\ n \notin {<<"f", "o", "r">>, <<"i", "n">>,
                                    <<"u", "c", "g", "i", "d">>}
          IN  /\ Included(n) <=> (MatchesTable(t, n) \/ broad)
              /\ is_priority_variable(t, n) <=> (MatchesTable(t, n) \/ broad)

\* An acs dictionary with a name that only starts with a table code, and a
\* cbp dictionary with a name outside the table: both included.
C6_Witness ==
    /\ varPc = "done"
    /\ Len(datasets) = 2
    /\ datasets[1].dataset_type = <<"a", "c", "s">>
    /\ datasets[2].dataset_type = <<"c", "b", "p">>
    /\ \E i, j \in DOMAIN all_variables :
         /\ all_variables[i].dataset_type = <<"a", "c", "s">>
         /\ all_variables[i].variable_name \notin Priorities(<<"a", "c", "s">>)
         /\ all_variables[j].dataset_type = <<"c", "b", "p">>
         /\ ~MatchesTable(<<"c", "b", "p">>, all_variables[j].variable_name)

\* C10: no descriptor emitted by variable discovery is named "for", "in" or
\* "ucgid", whatever the dictionary and the dataset type.
C10_NoReservedToken ==
    \A j \in DOMAIN all_variables :
       all_variables[j].variable_name \notin
          {<<"f", "o", "r">>, <<"i", "n">>, <<"u", "c", "g", "i", "d">>}

\* A dictionary holding a reserved token was fetched for a dataset type
\* without a priority table, and another of its names was emitted.
C10_Witness ==
    /\ LastFetchOk
    /\ ~HasPriorityTable(LastRow.dataset_type)
    /\ LastRow.dataset_type \notin BroadTypes
    /\ <<"f", "o", "r">> \in DictNames
    /\ dataset_vars # <<>>

(***************************************************************************)
(* Claims about the data fetcher.                                          *)
(***************************************************************************)
\* C7: the datasets process_data_fetcher selects are taken in sorted order,
\* have pairwise distinct dataset types, are each the earliest row of their
\* type in sorted order, and are at most 10: the first 10 types met.
C7_Selection ==
    selPc = "done" =>
      LET sel == datasets_to_process
          srt == sorted_datasets
          pos(d) == CHOOSE p \in DOMAIN srt : srt[p] = d
          types == { srt[p].dataset_type : p \in DOMAIN srt }
      IN  /\ Len(sel) <= 10
          /\ Len(sel) = IF Cardinality(types) < 10 THEN Cardinality(types) ELSE 10
          /\ \A i \in DOMAIN sel : \E p \in DOMAIN srt : srt[p] = sel[i]
          /\ \A i, j \in DOMAIN sel :
               i < j => /\ sel[i].dataset_type # sel[j].dataset_type
                        /\ pos(sel[i]) < pos(sel[j])
          /\ \A i \in DOMAIN sel :
               \A q \in 1 .. (pos(sel[i]) - 1) :
                  srt[q].dataset_type # sel[i].dataset_type
          /\ \A q \in DOMAIN srt :
               (\A i \in DOMAIN sel : sel[i].dataset_type # srt[q].dataset_type)
                  => Len(sel) = 10 /\ q > pos(sel[10])
          /\ SortedRows(srt)

\* A catalog of all 12 dataset types, two vintages each, oldest first in
\* the table: 10 datasets selected, each the newest of its type.
C7_Witness ==
    /\ selPc = "done"
    /\ Len(catalog_data) = 24
    /\ catalog_data[1].vintage = IntVintage(2020)
    /\ catalog_data[2].vintage = IntVintage(2021)
    /\ Len(datasets_to_process) = 10
    /\ \A i \in DOMAIN datasets_to_process :
         datasets_to_process[i].vintage = IntVintage(2021)

\* The concatenation of a sequence of sequences.
RECURSIVE Flatten(_)
Flatten(gs) == IF gs = <<>> THEN <<>> ELSE gs[1] \o Flatten(Tail(gs))

\* C8: build_variable_groups splits n variables into ceil(n/50) batches
\* that, concatenated in order, give back the sequence of variable names;
\* every batch but the last has exactly 50 names, the last has 1 to 50, none
\* is empty (120 variables: 50, 50, 20; no variable: no batch).
C8_Batches ==
    grpPc = "done" =>
      LET n == Len(variables)
          g == variable_groups
      IN  /\ Len(g) = (n + 49) \div 50
          /\ Flatten(g) = [i \in 1 .. n |-> variables[i].variable_name]
          /\ \A k \in DOMAIN g :
               /\ Len(g[k]) >= 1
               /\ Len(g[k]) <= 50
               /\ k < Len(g) => Len(g[k]) = 50
          /\ n = 120 => Len(g) = 3 /\ Len(g[1]) = 50 /\ Len(g[2]) = 50 /\ Len(g[3]) = 20
          /\ n = 0 => g = <<>>

\* 120 variables batched as 50, 50, 20.
C8_Witness ==
    /\ grpPc = "done"
    /\ Len(variables) = 120
    /\ Len(variable_groups) = 3
    /\ Len(variable_groups[3]) = 20

(***************************************************************************)
(* Claims about response parsing.                                          *)
(***************************************************************************)
\* The cell a record was built from.
SourceCell(rec) == data[rec.src_row + 1][HeaderIdx(data[1], rec.variable)]

\* C9: in every record, value is the response cell verbatim; value_numeric is
\* null when the cell is null, empty, "-", "." or any other text that is
\* not a number, and is the number when the cell is numeric ("42.5" gives
\* 42.5); and the parser raises only when a row lacks a cell it reads, never
\* because a cell fails to parse.
C9_NumericValues ==
    parsePc = "done" =>
      /\ \A k \in DOMAIN parsed.records :
           LET rec == parsed.records[k]
               cell == SourceCell(rec)
           IN  /\ rec.value = cell
               /\ rec.value_numeric =
                    (CASE cell = Cell(<<"4", "2", ".", "5">>) -> Number(425, 1)
                       [] cell = Cell(<<"5", "0", "3", "0", "0", "0", "0">>) -> Number(5030000, 0)
                       [] cell = Cell(<<"0">>) -> Number(0, 0)
                       [] cell = Cell(<<"-", "7", ".", "0">>) -> Number(0 - 7, 0)
                       [] cell = Cell(<<"7">>) -> Number(7, 0)
                       [] OTHER -> NoNumber)
      /\ parsed.raised => \E r \in 2 .. Len(data) : Len(data[r]) < Len(data[1])

\* One response gave a record for "." (no number) and one for "42.5".
C9_Witness ==
    /\ parsePc = "done"
    /\ \E j, k \in DOMAIN parsed.records :
         /\ parsed.records[j].value = Cell(<<".">>)
         /\ parsed.records[j].value_numeric = NoNumber
         /\ parsed.records[k].value = Cell(<<"4", "2", ".", "5">>)
         /\ parsed.records[k].value_numeric = Number(425, 1)

\* The data rows of the response (positions among the data rows) that have
\* as many cells as the header.
WellFormedRows == { r \in 1 .. (Len(data) - 1) : Len(data[r + 1]) = Len(data[1]) }

\* The variables of variable_map (positions) that are columns of the header.
PresentVars == { v \in DOMAIN variable_map :
                   HeaderIdx(data[1], variable_map[v].variable_name) # 0 }

\* The number of records built from data row r for the name var_name.
RecordCount(r, var_name) ==
    Cardinality({ k \in DOMAIN parsed.records :
                    /\ parsed.records[k].src_row = r
                    /\ parsed.records[k].variable = var_name })

\* C13: a data row whose column count differs from the header's is
\* discarded: the parser does not raise, no record comes from such a row,
\* and every well-formed row still gives its records.
C13_MalformedRowsDiscarded ==
    (parsePc = "done" /\ Len(data) >= 2) =>
       /\ ~parsed.raised
       /\ \A k \in DOMAIN parsed.records : parsed.records[k].src_row \in WellFormedRows
       /\ \A r \in WellFormedRows : \A v \in PresentVars :
            RecordCount(r, variable_map[v].variable_name) = 1

(***************************************************************************)
(* Claims about the dataset loops.                                         *)
(***************************************************************************)
\* The number of variables the dictionary gives for the first n datasets
\* whose fetch succeeded.
RECURSIVE VariablesOfOk(_)
VariablesOfOk(n) ==
    IF n = 0 THEN 0
    ELSE VariablesOfOk(n - 1)
           + (IF varFetched[n] = "ok"
              THEN Len(fetch_dataset_variables(datasets[n], remoteDict, TRUE))
              ELSE 0)

\* The requests process_dataset_data issues for the dataset at position d:
\* every batch of every geography level, in order.
UnitsOf(d) ==
    LET groups == build_variable_groups(dfDatasets[d].dataset_variables)
        n == Len(groups)
    IN  IF dfDatasets[d].dataset_variables # <<>> /\ dfDatasets[d].api_endpoint
        THEN [ k \in 1 .. (Len(GEOGRAPHY_LEVELS) * n) |->
                 [dataset |-> d, geo |-> ((k - 1) \div n) + 1, group |-> ((k - 1) % n) + 1] ]
        ELSE <<>>

\* The requests of a whole run that is not cut short.
RECURSIVE UnitsUpTo(_)
UnitsUpTo(d) == IF d = 0 THEN <<>> ELSE UnitsUpTo(d - 1) \o UnitsOf(d)

Unit(r) == [dataset |-> r.dataset, geo |-> r.geo, group |-> r.group]

\* The records the run holds for dataset d: those of its upload, or those
\* accumulated so far when d is the dataset being fetched.
RecordsHeld(d) ==
    IF \E u \in DOMAIN uploads : uploads[u].dataset = d
    THEN Len(uploads[CHOOSE u \in DOMAIN uploads : uploads[u].dataset = d].table)
    ELSE IF dfPc = "fetch" /\ di = d THEN Len(dsRecords) ELSE 0

\* The records parsed from the usable responses among the first n requests
\* for dataset d.
RECURSIVE RecordsAnswered(_, _)
RecordsAnswered(d, n) ==
    IF n = 0 THEN 0
    ELSE RecordsAnswered(d, n - 1)
           + (IF dfRequests[n].dataset = d /\ dfRequests[n].usable
              THEN Len(dfRequests[n].keys)
              ELSE 0)

\* C11: a failed get() (or an empty or one-row response) for one variable
\* dictionary or one batch gives no variable or record for that unit and
\* stops nothing: the units are requested one after the other, each once;
\* while a unit is left the loop stands at it, after the last one the
\* component's save_state has run, and only a response that held data can
\* end the run early; what the other units gave is kept.
C11_FailedUnitSkipped ==
    /\ varPc \in {"loop", "done"} =>
         /\ varRequests = SelectSeq([i \in 1 .. (vi - 1) |-> i],
                                    LAMBDA i : datasets[i].variables_link)
         /\ Len(all_variables) = VariablesOfOk(vi - 1)
         /\ varPc = "loop" => vi <= Len(datasets)
         /\ varPc = "done" => vi = Len(datasets) + 1 /\ varState.saved
    /\ dfPc \in {"fetch", "done", "raised"} =>
         LET expected == UnitsUpTo(Len(dfDatasets))
         IN  /\ Len(dfRequests) <= Len(expected)
             /\ \A k \in DOMAIN dfRequests : Unit(dfRequests[k]) = expected[k]
             /\ \A d \in DOMAIN dfDatasets :
                  dfPc # "raised" =>
                     RecordsHeld(d) = RecordsAnswered(d, Len(dfRequests))
             /\ \A k \in DOMAIN dfRequests :
                  /\ ~dfRequests[k].usable => dfRequests[k].keys = <<>>
                  /\ dfRequests[k].usable /\ (dfPc # "raised" \/ k < Len(dfRequests))
                       => dfRequests[k].keys # <<>>
             /\ dfPc = "fetch" =>
                  /\ Len(dfRequests) < Len(expected)
                  /\ Unit([dataset |-> di, geo |-> geoIdx, group |-> groupIdx])
                       = expected[Len(dfRequests) + 1]
             /\ dfPc = "done" =>
                  /\ Len(dfRequests) = Len(expected)
                  /\ dfState.saved
             /\ dfPc = "raised" => dfRequests[Len(dfRequests)].usable

\* A run of the data fetcher in which the first request failed and a later
\* one gave records, ended by save_state; and a run of variable discovery
\* in which the first dictionary failed and a later one gave variables.
C11_Witness ==
    \/ /\ dfPc = "done"
       /\ dfState.saved
       /\ Len(dfRequests) >= 4
       /\ ~dfRequests[1].usable
       /\ dfRequests[2].usable
       /\ dfState.total_records > 0
    \/ /\ varPc = "done"
       /\ Len(datasets) = 2
       /\ varFetched[1] = "failed"
       /\ varFetched[2] = "ok"
       /\ all_variables # <<>>

\* The geography level (position in GEOGRAPHY_LEVELS) a record came from.
GeoOfRecord(rec) == IF \E e \in rec.geo : e.key = "county_fips" THEN 2 ELSE 1

\* The (name, geography level) pairs of the records parsed from the first n
\* responses for dataset d, in the order of the requests.
RECURSIVE KeysAnswered(_, _)
KeysAnswered(d, n) ==
    IF n = 0 THEN <<>>
    ELSE KeysAnswered(d, n - 1)
           \o (IF dfRequests[n].dataset = d
               THEN [ i \in DOMAIN dfRequests[n].keys |->
                        <<dfRequests[n].keys[i], dfRequests[n].geo>> ]
               ELSE <<>>)

\* The dataset at position d is behind the dataset loop.
Finished(d) == dfPc = "done" \/ (dfPc = "fetch" /\ di > d)

\* C12: a dataset is uploaded at most once, as "{dataset_type}_{vintage}",
\* not before every batch of every geography level of it was requested;
\* its table holds, in the order of the requests, the records parsed from
\* the responses to them, and nothing else; a dataset that is done is
\* uploaded iff some response for it was usable.
C12_UploadPerDataset ==
    /\ \A u, v \in DOMAIN uploads :
         u # v => /\ uploads[u].dataset # uploads[v].dataset
                  /\ uploads[u].dataset_name # uploads[v].dataset_name
    /\ \A u \in DOMAIN uploads :
         LET d == uploads[u].dataset
             dataset == dfDatasets[d]
             mine == { k \in 1 .. uploads[u].requests : dfRequests[k].dataset = d }
         IN  /\ uploads[u].dataset_name =
                  dataset.dataset_type
                    \o (IF dataset.vintage = IntVintage(2021)
                        THEN <<"_", "2", "0", "2", "1">>
                        ELSE <<"_", "N", "o", "n", "e">>)
             /\ { Unit(dfRequests[k]) : k \in mine }
                  = { UnitsOf(d)[k] : k \in DOMAIN UnitsOf(d) }
             /\ \A k \in DOMAIN dfRequests : dfRequests[k].dataset = d => k \in mine
             /\ uploads[u].table # <<>>
             /\ [ t \in DOMAIN uploads[u].table |->
                    <<uploads[u].table[t].variable, GeoOfRecord(uploads[u].table[t])>> ]
                  = KeysAnswered(d, uploads[u].requests)
             /\ \A t \in DOMAIN uploads[u].table :
                  uploads[u].table[t].dataset_type = dataset.dataset_type
    /\ \A d \in DOMAIN dfDatasets :
         Finished(d) =>
            ((\E u \in DOMAIN uploads : uploads[u].dataset = d)
               <=> (\E k \in DOMAIN dfRequests :
                      dfRequests[k].dataset = d /\ dfRequests[k].usable))

\* A run that uploaded a dataset of two batches from some of its four
\* responses, and passed over a dataset whose every request failed.
C12_Witness ==
    /\ dfPc = "done"
    /\ Len(dfDatasets) = 2
    /\ Len(uploads) = 1
    /\ Len(dfRequests) >= 5
    /\ Len(uploads[1].table) > MAX_VARS_PER_REQUEST
    /\ \E k \in DOMAIN dfRequests :
         dfRequests[k].dataset = uploads[1].dataset /\ ~dfRequests[k].usable

\* How many records of the responses to the requests in `ks` are for name v.
RecordsFor(ks, v) ==
    Cardinality({ <<k, i>> \in ks \X (1 .. (MAX_VARS_PER_REQUEST + 2)) :
                    i \in DOMAIN dfRequests[k].keys /\ dfRequests[k].keys[i] = v })

\* C14: the response to a batch (one data row) gives one record for each
\* name of that batch, all of them columns of the header, and none for
\* another column; over the batches of a dataset and geography level no
\* (row, variable) pair has more than one record.
C14_OneRecordPerVariable ==
    \A k \in DOMAIN dfRequests :
       dfRequests[k].keys # <<>> =>
          LET d == dfRequests[k].dataset
              group == build_variable_groups(dfDatasets[d].dataset_variables)
                         [dfRequests[k].group]
              level == { j \in DOMAIN dfRequests :
                           dfRequests[j].dataset = d /\ dfRequests[j].geo = dfRequests[k].geo }
          IN  /\ \A i \in DOMAIN group : RecordsFor({k}, group[i]) = 1
              /\ Len(dfRequests[k].keys) = Len(group)
              /\ \A i \in DOMAIN dfRequests[k].keys :
                   RecordsFor(level, dfRequests[k].keys[i]) = 1

(***************************************************************************)
(* Claims about the year loops of the time-series fetchers.                *)
(***************************************************************************)
\* The years of the current run whose iteration of the year loop has ended.
YearsDone == { y \in RunYears : y < year }

\* The years that were processed fully and successfully: the iteration has
\* ended, nothing in it failed and it gave records.
YearsSucceeded == { y \in YearsDone : y \in RecYears /\ y \notin errYears }

\* C15: at every point of a run (so also before the first request for the
\* next year) the stored last_year_processed is the last year of the run
\* that was processed fully and successfully, and the run has stored
\* nothing when there is no such year.
C15_WatermarkIsLastSuccessfulYear ==
    pc # "idle" =>
       /\ YearsSucceeded # {} =>
            /\ store[dom].present
            /\ store[dom].last_year_processed \in YearsSucceeded
            /\ \A y \in YearsSucceeded : y <= store[dom].last_year_processed
       /\ YearsSucceeded = {} => saved = <<>>

\* The fetch function's calls for the year of the last iteration gave no
\* usable response.
NoUsableResponse == \A i \in DOMAIN yearReqs : yearReqs[i].result # "usable"

\* C16: in fetch_population_estimates / fetch_saipe_data the primary endpoint
\* is requested first and the alternate one after it, at most once, for the
\* same year; the alternate is requested exactly when the primary gave no
\* usable response, so a year that ended without a usable response had
\* both endpoints tried.
C16_AlternateIffPrimaryUnusable ==
    (dom \in {"population", "poverty"} /\ yearReqs # <<>>) =>
       /\ Len(yearReqs) <= 2
       /\ yearReqs[1].endpoint = "primary"
       /\ Len(yearReqs) = 2 =>
            /\ yearReqs[2].endpoint = "alternate"
            /\ yearReqs[2].year = yearReqs[1].year
            /\ yearReqs[1].result # "usable"
       /\ pc = "alternate" => Len(yearReqs) = 1 /\ yearReqs[1].year = year
       /\ pc # "alternate" =>
            /\ yearReqs[1].year = year - 1
            /\ yearReqs[1].result # "usable" => Len(yearReqs) = 2
            /\ NoUsableResponse =>
                 /\ Len(yearReqs) = 2
                 /\ yearReqs[1].year \notin RecYears
                 /\ \A i \in DOMAIN saved : saved[i] # yearReqs[1].year

\* C17: process_population / process_poverty request the years of the range
\* one after the other, each above the stored watermark, whatever the
\* earlier years gave, and a finished run has requested them all; a year
\* that was not saved lies below the watermark once a later year of the run
\* was saved, the watermark never goes back, and no request is ever made
\* again for such a year.
C17_FailedYearSkippedForGood ==
    [][ (dom = "population" \/ dom = "poverty") =>
          /\ \A y \in requested' \ requested :
               /\ y = year
               /\ y > StateGet(store[dom])
               /\ y \notin skipped
               /\ \A z \in requested : z < y
          /\ pc \in {"primary", "alternate"} /\ year' # year =>
               /\ year' = year + 1
               /\ pc' = IF year' < current_year THEN "primary" ELSE "done"
          /\ pc' = "done" => requested' = RunYears'
          /\ \A y \in YearsDone' :
               ((\A i \in DOMAIN saved' : saved'[i] # y)
                 /\ (\E i \in DOMAIN saved' : saved'[i] > y))
                 => y \in skipped'
          /\ \A y \in skipped' : y < StateGet(store'[dom])
          /\ StateGet(store'[dom]) >= StateGet(store[dom]) ]_vars

\* A second run that made its requests after a first run had left a failed
\* year behind a saved one.
C17_Witness ==
    /\ dom \in {"population", "poverty"}
    /\ runs = 2
    /\ pc = "done"
    /\ requested # {}
    /\ \E y \in skipped : y <= last_year /\ y \notin requested

====
